---------------------------- MODULE Spec2Model ----------------------------
(***************************************************************************)
(* Collision shapes of ReactPhysics3D: SphereShape construction and copy,  *)
(* the inline queries of ConeShape (local bounds, local inertia tensor,    *)
(* equality, proxy creation) and the forwarding methods of ProxyConeShape. *)
(*                                                                         *)
(* Numbers.  A `decimal` is modelled by an integer and the arithmetic is   *)
(* exact (no floating-point rounding).  Heights given to the ConeShape     *)
(* constructor are even, so that the half height is an integer.  The       *)
(* entries of an inertia tensor are kept in hundredths: the factors 0.15   *)
(* and 0.3 of the code are the integers 15 and 30 on that scale.           *)
(*                                                                         *)
(* Objects.  `shapes` is the store of the collision shapes constructed so  *)
(* far and a shape's address is its index in it; `proxies` is the same for *)
(* the proxy shapes.  `memory` logs, per memory source, the sizes of the   *)
(* blocks taken from it.  `ret` records the last call: its receiver, its   *)
(* arguments and what it returned, wrote to its out-parameters or threw.   *)
(*                                                                         *)
(* The RaycastManager of the testbed's raycast scene keeps the visual      *)
(* contact points and the normal lines of the hits reported to it.         *)
(***************************************************************************)
EXTENDS Integers, Sequences, FiniteSets, TLC

VARIABLES shapes, proxies, createdFrom, memory, status, ret,
          mHitPoints, mNormals, hitsSinceReset

(* The state of the RaycastManager of the raycast scene: its two vectors,  *)
(* and the number of notifyRaycastHit calls since the last resetPoints.    *)
raycastVars == <<mHitPoints, mNormals, hitsSinceReset>>

(* The state of the collision shapes and of their proxies. *)
shapeVars == <<shapes, proxies, createdFrom, status>>

vars == <<shapes, proxies, createdFrom, memory, status, ret,
          mHitPoints, mNormals, hitsSinceReset>>

-----------------------------------------------------------------------------
(* Bounds of the model. *)

MaxShapes == 2

MaxProxies == 2

MaxRadius == 2

MaxHalfHeight == 2

MaxMargin == 1

MaxMass == 2

MaxScale == 2

(* The values the callers pass.  Radii and heights include values the      *)
(* constructors must reject.                                               *)
Radii == (0 - 1)..MaxRadius

Heights == {2 * h : h \in 0..MaxHalfHeight}

Margins == 0..MaxMargin

Masses == 1..MaxMass

Scales == 0..MaxScale

Allocators == {"allocator1", "allocator2"}

MemorySources == Allocators \cup {"heap"}

(* The attachments the callers make: the body, the transform and the mass *)
(* handed to createProxyShape.                                             *)
Attachments ==
    {[body |-> "body1", transform |-> "identity", mass |-> 1],
     [body |-> "body2", transform |-> "moved", mass |-> MaxMass]}

(* Query directions: non-null axis-aligned vectors, unit and not, whose    *)
(* unit vector is exact in integer arithmetic.                             *)
Directions ==
    {<<1, 0, 0>>, <<0 - 1, 0, 0>>, <<0, 1, 0>>, <<0, 0 - 1, 0>>,
     <<0, 0, 1>>, <<0, 0, 0 - 1>>, <<2, 0, 0>>, <<0, 0 - 2, 0>>, <<0, 0, 0 - 3>>}

-----------------------------------------------------------------------------
(* What a call hands back to its caller. *)

Returned(v) == [exception |-> "none", value |-> v]

Thrown(e) == [exception |-> e]

Abs(x) == IF x < 0 THEN 0 - x ELSE x

(* Vector3::length for a vector whose length is an integer. *)
Length(v) ==
    LET sq == v[1] * v[1] + v[2] * v[2] + v[3] * v[3]
    IN  CHOOSE n \in 0..(Abs(v[1]) + Abs(v[2]) + Abs(v[3])) : n * n = sq

-----------------------------------------------------------------------------
(* CollisionShape: the base sub-object, its kind tag and its margin. *)

CollisionShape(type, margin) == [mType |-> type, mMargin |-> margin]

CollisionShapeCopy(shape) == [mType |-> shape.mType, mMargin |-> shape.mMargin]

CollisionShape_getMargin(self) == self.mMargin

-----------------------------------------------------------------------------
(* SphereShape *)

SphereShape_assert_ge(radius) == radius >= 0

(* assert(radius > decimal(0.0)) *)
SphereShape_assert(radius) == radius > 0

SphereShape_defaultMargin(radius) ==
    LET base == CollisionShape("SPHERE", 0)
    IN  [mType |-> base.mType, mMargin |-> base.mMargin, mRadius |-> radius]

(* SphereShape(radius) : CollisionShape(SPHERE, radius), mRadius(radius) *)
SphereShape(radius) ==
    LET base == CollisionShape("SPHERE", radius)
    IN  [mType |-> base.mType, mMargin |-> base.mMargin, mRadius |-> radius]

(* SphereShape(const SphereShape& shape) : CollisionShape(shape),          *)
(*                                         mRadius(shape.mRadius)          *)
SphereShapeCopy(shape) ==
    LET base == CollisionShapeCopy(shape)
    IN  [mType |-> base.mType, mMargin |-> base.mMargin, mRadius |-> shape.mRadius]

-----------------------------------------------------------------------------
(* ConeShape *)

(* The constructor: the half height is half the height, and the sine of    *)
(* the semi angle at the apex, radius / sqrt(radius^2 + height^2), is kept *)
(* as its square, a fraction <<numerator, denominator>>.                   *)
ConeShape_assert(radius, height) == radius > 0 /\ height \div 2 > 0

ConeShape(radius, height, margin) ==
    LET base == CollisionShape("CONE", margin)
    IN  [mType |-> base.mType, mMargin |-> base.mMargin,
         mRadius |-> radius, mHalfHeight |-> height \div 2,
         mSinTheta |-> <<radius * radius, radius * radius + height * height>>]


ConeShape_getLocalBounds_zFromY(self) ==
    LET maxx == self.mRadius + self.mMargin
        maxy == self.mHalfHeight + self.mMargin
        maxz == maxy
        minx == 0 - maxx
        miny == 0 - maxy
        minz == minx
    IN  [min |-> <<minx, miny, minz>>, max |-> <<maxx, maxy, maxz>>]

(* getLocalBounds(min, max): the two out-parameters, assigned in the       *)
(* code's order.                                                           *)
ConeShape_getLocalBounds(self) ==
    LET maxx == self.mRadius + self.mMargin
        maxy == self.mHalfHeight + self.mMargin
        maxz == maxx
        minx == 0 - maxx
        miny == 0 - maxy
        minz == minx
    IN  [min |-> <<minx, miny, minz>>, max |-> <<maxx, maxy, maxz>>]

(* Matrix3x3::setAllValues(a1, a2, a3, b1, b2, b3, c1, c2, c3): row-major. *)
setAllValues(a1, a2, a3, b1, b2, b3, c1, c2, c3) ==
    <<<<a1, a2, a3>>, <<b1, b2, b3>>, <<c1, c2, c3>>>>

ConeShape_computeLocalInertiaTensor_shifted(self, mass) ==
    LET rSquare == self.mRadius * self.mRadius
        diagXZ == 15 * mass * (rSquare + self.mHalfHeight)
    IN  setAllValues(diagXZ, 0, 0,
                     0, 0, 30 * mass * rSquare,
                     0, 0, diagXZ)

(* computeLocalInertiaTensor(tensor, mass): the tensor written, in         *)
(* hundredths.                                                             *)
ConeShape_computeLocalInertiaTensor(self, mass) ==
    LET rSquare == self.mRadius * self.mRadius
        diagXZ == 15 * mass * (rSquare + self.mHalfHeight)
    IN  setAllValues(diagXZ, 0, 0,
                     0, 30 * mass * rSquare, 0,
                     0, 0, diagXZ)

ConeShape_isEqualTo_radiusTwice(self, otherCollisionShape) ==
    IF otherCollisionShape.mType # "CONE"
    THEN Thrown("std::bad_cast")
    ELSE LET otherShape == otherCollisionShape
         IN  Returned(self.mRadius = otherShape.mRadius
                        /\ self.mHalfHeight = otherShape.mRadius)

(* isEqualTo(otherCollisionShape): dynamic_cast to a reference throws      *)
(* std::bad_cast when the argument is no ConeShape.                        *)
ConeShape_isEqualTo(self, otherCollisionShape) ==
    IF otherCollisionShape.mType # "CONE"
    THEN Thrown("std::bad_cast")
    ELSE LET otherShape == otherCollisionShape
         IN  Returned(self.mRadius = otherShape.mRadius
                        /\ self.mHalfHeight = otherShape.mHalfHeight)

(* The support mapping of the cone.  The apex test dy / |d| > sinTheta is  *)
(* taken on the squares, which is exact for integers.                      *)
ConeShape_getLocalSupportPointWithoutMargin(self, direction) ==
    LET dx == direction[1]
        dy == direction[2]
        dz == direction[3]
        lengthSquare == dx * dx + dy * dy + dz * dz
        num == self.mSinTheta[1]
        den == self.mSinTheta[2]
        projectedLength == Length(<<dx, 0, dz>>)
    IN  IF lengthSquare = 0 \/ (dy > 0 /\ dy * dy * den > lengthSquare * num)
        THEN <<0, self.mHalfHeight, 0>>
        ELSE IF projectedLength # 0
             THEN <<(self.mRadius * dx) \div projectedLength,
                    0 - self.mHalfHeight,
                    (self.mRadius * dz) \div projectedLength>>
             ELSE <<0, 0 - self.mHalfHeight, 0>>

(* The support point without margin, advanced by the margin along the      *)
(* unit direction (the null vector for a null direction).                  *)
ConeShape_getLocalSupportPointWithMargin(self, direction) ==
    LET supportPoint == ConeShape_getLocalSupportPointWithoutMargin(self, direction)
        length == Length(direction)
        unitTimesMargin ==
            IF length = 0
            THEN <<0, 0, 0>>
            ELSE <<(self.mMargin * direction[1]) \div length,
                   (self.mMargin * direction[2]) \div length,
                   (self.mMargin * direction[3]) \div length>>
    IN  <<supportPoint[1] + unitTimesMargin[1],
          supportPoint[2] + unitTimesMargin[2],
          supportPoint[3] + unitTimesMargin[3]>>

-----------------------------------------------------------------------------
(* ProxyConeShape.  The operators below read `shapes` where the code       *)
(* follows the pointer mCollisionShape.                                    *)

(* ProxyConeShape(shape, body, transform, mass)                            *)
(*     : ProxyShape(body, transform, mass), mCollisionShape(shape)         *)
ProxyConeShape(shape, body, transform, mass) ==
    [mBody |-> body, mLocalToBodyTransform |-> transform, mMass |-> mass,
     mCollisionShape |-> shape]

ProxyConeShape_getCollisionShape(self) == self.mCollisionShape

ProxyConeShape_getSizeInBytes_base(self) == "sizeof(ProxyShape)"

ProxyConeShape_getSizeInBytes(self) == "sizeof(ProxyConeShape)"

ProxyConeShape_getLocalSupportPointWithMargin_without(self, direction) ==
    ConeShape_getLocalSupportPointWithoutMargin(shapes[self.mCollisionShape], direction)

ProxyConeShape_getLocalSupportPointWithMargin(self, direction) ==
    ConeShape_getLocalSupportPointWithMargin(shapes[self.mCollisionShape], direction)

ProxyConeShape_getLocalSupportPointWithoutMargin(self, direction) ==
    ConeShape_getLocalSupportPointWithoutMargin(shapes[self.mCollisionShape], direction)

ProxyConeShape_getMargin(self) ==
    CollisionShape_getMargin(shapes[self.mCollisionShape])

-----------------------------------------------------------------------------
(* The objects of a kind, by address. *)

ShapeIds == 1..Len(shapes)

ConeIds == {s \in ShapeIds : shapes[s].mType = "CONE"}

SphereIds == {s \in ShapeIds : shapes[s].mType = "SPHERE"}

ProxyIds == 1..Len(proxies)

Running == status = "running"

-----------------------------------------------------------------------------
(* Construction of shapes. *)

(* new SphereShape(radius): the failed assertion aborts the process before *)
(* the constructor returns.                                                *)
NewSphereShape(radius) ==
    /\ Running
    /\ Len(shapes) < MaxShapes
    /\ ret' = [op |-> "SphereShape", radius |-> radius]
    /\ IF SphereShape_assert(radius)
       THEN /\ shapes' = Append(shapes, SphereShape(radius))
            /\ status' = status
       ELSE /\ shapes' = shapes
            /\ status' = "aborted"
    /\ UNCHANGED <<proxies, createdFrom, memory>>
    /\ UNCHANGED raycastVars

(* The private copy constructor, applied to an existing sphere. *)
CopySphereShape(s) ==
    /\ Running
    /\ Len(shapes) < MaxShapes
    /\ s \in SphereIds
    /\ shapes' = Append(shapes, SphereShapeCopy(shapes[s]))
    /\ ret' = [op |-> "SphereShape(copy)", shape |-> s]
    /\ UNCHANGED <<proxies, createdFrom, memory, status>>
    /\ UNCHANGED raycastVars

(* new ConeShape(radius, height, margin) *)
NewConeShape(radius, height, margin) ==
    /\ Running
    /\ Len(shapes) < MaxShapes
    /\ ret' = [op |-> "ConeShape", radius |-> radius, height |-> height,
               margin |-> margin]
    /\ IF ConeShape_assert(radius, height)
       THEN /\ shapes' = Append(shapes, ConeShape(radius, height, margin))
            /\ status' = status
       ELSE /\ shapes' = shapes
            /\ status' = "aborted"
    /\ UNCHANGED <<proxies, createdFrom, memory>>
    /\ UNCHANGED raycastVars

-----------------------------------------------------------------------------
(* Calls on a cone.  All of them are const methods: they leave every       *)
(* object as it is and only hand back a result.                            *)

GetLocalBounds(s) ==
    /\ Running
    /\ s \in ConeIds
    /\ LET out == ConeShape_getLocalBounds(shapes[s])
       IN  ret' = [op |-> "getLocalBounds", self |-> s,
                   min |-> out.min, max |-> out.max]
    /\ UNCHANGED <<shapes, proxies, createdFrom, memory, status>>
    /\ UNCHANGED raycastVars

ComputeLocalInertiaTensor(s, mass) ==
    /\ Running
    /\ s \in ConeIds
    /\ ret' = [op |-> "computeLocalInertiaTensor", self |-> s, mass |-> mass,
               tensor |-> ConeShape_computeLocalInertiaTensor(shapes[s], mass)]
    /\ UNCHANGED <<shapes, proxies, createdFrom, memory, status>>
    /\ UNCHANGED raycastVars

(* An exception that leaves isEqualTo is either caught by a caller or ends *)
(* the process.                                                            *)
IsEqualTo(s, o) ==
    /\ Running
    /\ s \in ConeIds
    /\ o \in ShapeIds
    /\ LET out == ConeShape_isEqualTo(shapes[s], shapes[o])
       IN  /\ ret' = [op |-> "isEqualTo", self |-> s, other |-> o, out |-> out]
           /\ IF out.exception = "none"
              THEN status' = status
              ELSE status' \in {"running", "terminated"}
    /\ UNCHANGED <<shapes, proxies, createdFrom, memory>>
    /\ UNCHANGED raycastVars

GetMargin(s) ==
    /\ Running
    /\ s \in ConeIds
    /\ ret' = [op |-> "getMargin", self |-> s,
               value |-> CollisionShape_getMargin(shapes[s])]
    /\ UNCHANGED <<shapes, proxies, createdFrom, memory, status>>
    /\ UNCHANGED raycastVars

GetLocalSupportPointWithMargin(s, direction) ==
    /\ Running
    /\ s \in ConeIds
    /\ ret' = [op |-> "getLocalSupportPointWithMargin", self |-> s,
               direction |-> direction,
               value |-> ConeShape_getLocalSupportPointWithMargin(shapes[s], direction)]
    /\ UNCHANGED <<shapes, proxies, createdFrom, memory, status>>
    /\ UNCHANGED raycastVars

GetLocalSupportPointWithoutMargin(s, direction) ==
    /\ Running
    /\ s \in ConeIds
    /\ ret' = [op |-> "getLocalSupportPointWithoutMargin", self |-> s,
               direction |-> direction,
               value |-> ConeShape_getLocalSupportPointWithoutMargin(shapes[s], direction)]
    /\ UNCHANGED <<shapes, proxies, createdFrom, memory, status>>
    /\ UNCHANGED raycastVars

-----------------------------------------------------------------------------
(* The shapes: any sequence of constructions and of calls on the cones.    *)

Init ==
    /\ shapes = <<>>
    /\ proxies = <<>>
    /\ createdFrom = <<>>
    /\ memory = [m \in MemorySources |-> <<>>]
    /\ status = "running"
    /\ ret = [op |-> "none"]
    /\ mHitPoints = <<>>
    /\ mNormals = <<>>
    /\ hitsSinceReset = 0

Next ==
    \/ \E radius \in Radii : NewSphereShape(radius)
    \/ \E s \in ShapeIds : CopySphereShape(s)
    \/ \E radius \in Radii, height \in Heights, margin \in Margins :
         NewConeShape(radius, height, margin)
    \/ \E s \in ShapeIds : GetLocalBounds(s)
    \/ \E s \in ShapeIds, mass \in Masses : ComputeLocalInertiaTensor(s, mass)
    \/ \E s \in ShapeIds, o \in ShapeIds : IsEqualTo(s, o)

Spec == Init /\ [][Next]_vars

-----------------------------------------------------------------------------
(* Proxy shapes. *)

createProxyShape_clone(s, allocator, body, transform, mass) ==
    /\ Running
    /\ s \in ConeIds
    /\ Len(proxies) < MaxProxies
    /\ memory' = [memory EXCEPT ![allocator] = Append(@, "sizeof(ProxyConeShape)")]
    /\ shapes' = Append(shapes, shapes[s])
    /\ proxies' = Append(proxies,
                         ProxyConeShape(Len(shapes) + 1, body, transform, mass))
    /\ createdFrom' = Append(createdFrom, s)
    /\ ret' = [op |-> "createProxyShape", self |-> s, allocator |-> allocator,
               body |-> body, transform |-> transform, mass |-> mass,
               value |-> Len(proxies) + 1]
    /\ UNCHANGED status
    /\ UNCHANGED raycastVars

(* s.createProxyShape(allocator, body, transform, mass):                   *)
(*   new (allocator.allocate(sizeof(ProxyConeShape)))                      *)
(*       ProxyConeShape(this, body, transform, mass)                       *)
(* createdFrom keeps, for every proxy, the cone that created it.           *)
createProxyShape(s, allocator, body, transform, mass) ==
    /\ Running
    /\ s \in ConeIds
    /\ Len(proxies) < MaxProxies
    /\ memory' = [memory EXCEPT ![allocator] = Append(@, "sizeof(ProxyConeShape)")]
    /\ proxies' = Append(proxies, ProxyConeShape(s, body, transform, mass))
    /\ createdFrom' = Append(createdFrom, s)
    /\ ret' = [op |-> "createProxyShape", self |-> s, allocator |-> allocator,
               body |-> body, transform |-> transform, mass |-> mass,
               value |-> Len(proxies) + 1]
    /\ UNCHANGED <<shapes, status>>
    /\ UNCHANGED raycastVars

ProxyGetCollisionShape(p) ==
    /\ Running
    /\ p \in ProxyIds
    /\ ret' = [op |-> "ProxyConeShape::getCollisionShape", self |-> p,
               value |-> ProxyConeShape_getCollisionShape(proxies[p])]
    /\ UNCHANGED <<shapes, proxies, createdFrom, memory, status>>
    /\ UNCHANGED raycastVars

ProxyGetSizeInBytes(p) ==
    /\ Running
    /\ p \in ProxyIds
    /\ ret' = [op |-> "ProxyConeShape::getSizeInBytes", self |-> p,
               value |-> ProxyConeShape_getSizeInBytes(proxies[p])]
    /\ UNCHANGED <<shapes, proxies, createdFrom, memory, status>>
    /\ UNCHANGED raycastVars

ProxyGetLocalSupportPointWithMargin(p, direction) ==
    /\ Running
    /\ p \in ProxyIds
    /\ ret' = [op |-> "ProxyConeShape::getLocalSupportPointWithMargin",
               self |-> p, direction |-> direction,
               value |-> ProxyConeShape_getLocalSupportPointWithMargin(proxies[p],
                                                                       direction)]
    /\ UNCHANGED <<shapes, proxies, createdFrom, memory, status>>
    /\ UNCHANGED raycastVars

ProxyGetLocalSupportPointWithoutMargin(p, direction) ==
    /\ Running
    /\ p \in ProxyIds
    /\ ret' = [op |-> "ProxyConeShape::getLocalSupportPointWithoutMargin",
               self |-> p, direction |-> direction,
               value |-> ProxyConeShape_getLocalSupportPointWithoutMargin(proxies[p],
                                                                          direction)]
    /\ UNCHANGED <<shapes, proxies, createdFrom, memory, status>>
    /\ UNCHANGED raycastVars

ProxyGetMargin(p) ==
    /\ Running
    /\ p \in ProxyIds
    /\ ret' = [op |-> "ProxyConeShape::getMargin", self |-> p,
               value |-> ProxyConeShape_getMargin(proxies[p])]
    /\ UNCHANGED <<shapes, proxies, createdFrom, memory, status>>
    /\ UNCHANGED raycastVars

-----------------------------------------------------------------------------
(* One cone and the proxies made from it: the world starts with a cone the *)
(* constructor accepted, and then any sequence of proxy creations and of   *)
(* calls through the cone or through its proxies.                          *)

ValidCones ==
    {ConeShape(radius, height, margin) :
        radius \in {r \in Radii : r > 0},
        height \in {h \in Heights : h > 0},
        margin \in Margins}

ProxyInit ==
    /\ shapes \in {<<cone>> : cone \in ValidCones}
    /\ proxies = <<>>
    /\ createdFrom = <<>>
    /\ memory = [m \in MemorySources |-> <<>>]
    /\ status = "running"
    /\ ret = [op |-> "none"]
    /\ mHitPoints = <<>>
    /\ mNormals = <<>>
    /\ hitsSinceReset = 0

ProxyNext ==
    \/ \E s \in ShapeIds, allocator \in Allocators, a \in Attachments :
         createProxyShape(s, allocator, a.body, a.transform, a.mass)
    \/ \E p \in ProxyIds : ProxyGetCollisionShape(p)
    \/ \E p \in ProxyIds : ProxyGetSizeInBytes(p)
    \/ \E p \in ProxyIds, direction \in Directions :
         ProxyGetLocalSupportPointWithMargin(p, direction)
    \/ \E p \in ProxyIds, direction \in Directions :
         ProxyGetLocalSupportPointWithoutMargin(p, direction)
    \/ \E p \in ProxyIds : ProxyGetMargin(p)
    \/ \E s \in ShapeIds : GetMargin(s)
    \/ \E s \in ShapeIds, direction \in Directions :
         GetLocalSupportPointWithMargin(s, direction)
    \/ \E s \in ShapeIds, direction \in Directions :
         GetLocalSupportPointWithoutMargin(s, direction)
    \/ \E s \in ShapeIds : GetLocalBounds(s)
    \/ \E s \in ShapeIds, mass \in Masses : ComputeLocalInertiaTensor(s, mass)
    \/ \E s \in ShapeIds, o \in ShapeIds : IsEqualTo(s, o)

ProxySpec == ProxyInit /\ [][ProxyNext]_vars

-----------------------------------------------------------------------------
(* RaycastManager.  A pointer held in mHitPoints or mNormals is modelled   *)
(* by the object it owns: `new` adds the object with its pointer, `delete` *)
(* and clear() remove both.                                                *)

MaxHits == 3

MeshFolderPath == "meshes/"

(* The hits the raycaster reports: world point, world normal and the hit   *)
(* fraction along the ray, in hundredths.                                  *)
RaycastInfos ==
    [worldPoint : {<<0, 0, 0>>, <<1, 2, 3>>},
     worldNormal : {<<0, 1, 0>>, <<1, 0, 0>>},
     hitFraction : {0, 50, 100}]

(* new VisualContactPoint(position, mMeshFolderPath) *)
VisualContactPoint(position, meshFolderPath) ==
    [position |-> position, meshFolderPath |-> meshFolderPath]

(* new Line(worldPoint1, worldPoint2) *)
Line(worldPoint1, worldPoint2) ==
    [mWorldPoint1 |-> worldPoint1, mWorldPoint2 |-> worldPoint2]

(* openglframework::Vector3::operator+ *)
Plus(u, v) == <<u[1] + v[1], u[2] + v[2], u[3] + v[3]>>

notifyRaycastHit(raycastInfo) ==
    /\ Len(mHitPoints) < MaxHits
    /\ LET hitPos == raycastInfo.worldPoint
           position == <<hitPos[1], hitPos[2], hitPos[3]>>
           point == VisualContactPoint(position, MeshFolderPath)
           n == raycastInfo.worldNormal
           normal == <<n[1], n[2], n[3]>>
           normalLine == Line(position, Plus(position, normal))
       IN  /\ mHitPoints' = Append(mHitPoints, point)
           /\ mNormals' = Append(mNormals, normalLine)
    /\ hitsSinceReset' = hitsSinceReset + 1
    /\ ret' = [op |-> "notifyRaycastHit", raycastInfo |-> raycastInfo,
               value |-> raycastInfo.hitFraction]
    /\ UNCHANGED <<shapeVars, memory>>

resetPoints_normalsKept ==
    /\ mHitPoints' = <<>>
    /\ mNormals' = mNormals
    /\ hitsSinceReset' = 0
    /\ ret' = [op |-> "resetPoints"]
    /\ UNCHANGED <<shapeVars, memory>>

(* resetPoints(): every contact point is deleted and mHitPoints cleared,   *)
(* then every normal line is deleted and mNormals cleared.                 *)
resetPoints ==
    /\ mHitPoints' = <<>>
    /\ mNormals' = <<>>
    /\ hitsSinceReset' = 0
    /\ ret' = [op |-> "resetPoints"]
    /\ UNCHANGED <<shapeVars, memory>>

RaycastInit == Init

RaycastNext ==
    \/ \E raycastInfo \in RaycastInfos : notifyRaycastHit(raycastInfo)
    \/ resetPoints

RaycastSpec == RaycastInit /\ [][RaycastNext]_vars

-----------------------------------------------------------------------------
(* Properties. *)

Negated(v) == <<0 - v[1], 0 - v[2], 0 - v[3]>>

Scaled(k, tensor) == [i \in 1..3 |-> [j \in 1..3 |-> k * tensor[i][j]]]

(* C1: isEqualTo on a cone, given a shape of another concrete kind,        *)
(* returns false and neither throws nor ends the process.                  *)
C1_MismatchedKindReturnsFalse ==
    (ret.op = "isEqualTo" /\ shapes[ret.other].mType # "CONE")
        => /\ ret.out.exception = "none"
           /\ ret.out.value = FALSE
           /\ status = "running"

(* C2: for any two cones a and b, a.isEqualTo(b) returns true exactly when *)
(* the radii are equal and the half heights are equal, whatever the        *)
(* margins; the relation is reflexive and symmetric.                       *)
C2_ConeEquality ==
    /\ \A a \in ConeIds, b \in ConeIds :
         LET ab == ConeShape_isEqualTo(shapes[a], shapes[b])
             ba == ConeShape_isEqualTo(shapes[b], shapes[a])
             aa == ConeShape_isEqualTo(shapes[a], shapes[a])
         IN  /\ ab = Returned(shapes[a].mRadius = shapes[b].mRadius
                                /\ shapes[a].mHalfHeight = shapes[b].mHalfHeight)
             /\ aa = Returned(TRUE)
             /\ ab = ba
    /\ (ret.op = "isEqualTo" /\ ret.other \in ConeIds)
         => ret.out = Returned(shapes[ret.self].mRadius = shapes[ret.other].mRadius
                                 /\ shapes[ret.self].mHalfHeight
                                      = shapes[ret.other].mHalfHeight)

(* Two distinct cones with the same radius and half height and different   *)
(* margins were compared, and isEqualTo returned true.                     *)
C2_Witness ==
    /\ ret.op = "isEqualTo"
    /\ ret.other \in ConeIds
    /\ ret.self # ret.other
    /\ shapes[ret.self].mMargin # shapes[ret.other].mMargin
    /\ ret.out = Returned(TRUE)

(* C3: computeLocalInertiaTensor writes xx and zz as                       *)
(* 0.15 * mass * (radius^2 + halfHeight^2) and yy as 0.3 * mass * radius^2 *)
(* (in hundredths).                                                        *)
C3_InertiaDiagonal ==
    ret.op = "computeLocalInertiaTensor"
        => LET r == shapes[ret.self].mRadius
               h == shapes[ret.self].mHalfHeight
           IN  /\ ret.tensor[1][1] = 15 * ret.mass * (r * r + h * h)
               /\ ret.tensor[3][3] = 15 * ret.mass * (r * r + h * h)
               /\ ret.tensor[2][2] = 30 * ret.mass * r * r

(* C4: getLocalBounds writes max = (r + m, h + m, r + m) and min = -max.   *)
C4_LocalBounds ==
    ret.op = "getLocalBounds"
        => LET r == shapes[ret.self].mRadius
               h == shapes[ret.self].mHalfHeight
               m == shapes[ret.self].mMargin
           IN  /\ ret.max = <<r + m, h + m, r + m>>
               /\ ret.min = Negated(ret.max)
               /\ ret.max[1] = ret.max[3]

(* The bounds of a cone with a margin and a half height other than its     *)
(* radius were asked for.                                                  *)
C4_Witness ==
    /\ ret.op = "getLocalBounds"
    /\ shapes[ret.self].mMargin > 0
    /\ shapes[ret.self].mRadius # shapes[ret.self].mHalfHeight

(* C5: the tensor written by computeLocalInertiaTensor has its six         *)
(* off-diagonal entries 0, and the tensor for mass k * m is k times the    *)
(* tensor for mass m.                                                      *)
C5_InertiaDiagonalAndLinear ==
    ret.op = "computeLocalInertiaTensor"
        => /\ \A i \in 1..3, j \in 1..3 : i # j => ret.tensor[i][j] = 0
           /\ \A k \in Scales :
                ConeShape_computeLocalInertiaTensor(shapes[ret.self], k * ret.mass)
                    = Scaled(k, ret.tensor)

(* A tensor was computed for a mass above 1, with non-null diagonal.       *)
C5_Witness ==
    /\ ret.op = "computeLocalInertiaTensor"
    /\ ret.mass > 1
    /\ ret.tensor[1][1] > 0
    /\ ret.tensor[2][2] > 0

(* C6: constructing a SphereShape with a radius <= 0 fails the assertion,  *)
(* and no sphere, constructed or copied, has a radius <= 0.                *)
C6_NoNonPositiveSphere ==
    /\ \A s \in SphereIds : shapes[s].mRadius > 0
    /\ (ret.op = "SphereShape" /\ ret.radius <= 0) => status = "aborted"

(* A sphere was being constructed with a radius <= 0 beside an existing    *)
(* sphere.                                                                 *)
C6_Witness ==
    /\ ret.op = "SphereShape"
    /\ ret.radius <= 0
    /\ status = "aborted"
    /\ SphereIds # {}

(* C9: every sphere, constructed or copied, is of kind SPHERE and has a    *)
(* margin equal to its radius.                                             *)
C9_SphereMarginIsRadius ==
    /\ \A s \in SphereIds : shapes[s].mMargin = shapes[s].mRadius
    /\ (ret.op = "SphereShape" /\ status = "running")
         => /\ shapes[Len(shapes)].mType = "SPHERE"
            /\ shapes[Len(shapes)].mMargin = ret.radius
            /\ shapes[Len(shapes)].mRadius = ret.radius

(* A sphere of radius above 1 was copied.                                  *)
C9_Witness ==
    /\ ret.op = "SphereShape(copy)"
    /\ shapes[ret.shape].mRadius > 1
    /\ shapes[Len(shapes)] = shapes[ret.shape]
    /\ Len(shapes) # ret.shape

(* C7: for every proxy p created from cone s and every direction d, the    *)
(* support point with margin, the support point without margin and the    *)
(* margin that p returns are those s returns, so that two proxies of one   *)
(* cone agree whatever their body, transform and mass.                     *)
C7_ProxyDelegates ==
    /\ \A p \in ProxyIds :
         LET s == shapes[createdFrom[p]]
         IN  /\ ProxyConeShape_getMargin(proxies[p]) = CollisionShape_getMargin(s)
             /\ \A d \in Directions :
                  /\ ProxyConeShape_getLocalSupportPointWithMargin(proxies[p], d)
                       = ConeShape_getLocalSupportPointWithMargin(s, d)
                  /\ ProxyConeShape_getLocalSupportPointWithoutMargin(proxies[p], d)
                       = ConeShape_getLocalSupportPointWithoutMargin(s, d)
    /\ ret.op = "ProxyConeShape::getLocalSupportPointWithMargin"
         => ret.value = ConeShape_getLocalSupportPointWithMargin(
                            shapes[createdFrom[ret.self]], ret.direction)
    /\ ret.op = "ProxyConeShape::getLocalSupportPointWithoutMargin"
         => ret.value = ConeShape_getLocalSupportPointWithoutMargin(
                            shapes[createdFrom[ret.self]], ret.direction)
    /\ ret.op = "ProxyConeShape::getMargin"
         => ret.value = CollisionShape_getMargin(shapes[createdFrom[ret.self]])

(* Two proxies of one cone with a margin differ in body, transform and     *)
(* mass, and the second was asked for a support point with margin, which   *)
(* is not the one without margin.                                          *)
C7_Witness ==
    /\ Len(proxies) = 2
    /\ createdFrom[1] = createdFrom[2]
    /\ proxies[1].mBody # proxies[2].mBody
    /\ proxies[1].mLocalToBodyTransform # proxies[2].mLocalToBodyTransform
    /\ proxies[1].mMass # proxies[2].mMass
    /\ ret.op = "ProxyConeShape::getLocalSupportPointWithMargin"
    /\ ret.self = 2
    /\ ret.value # ConeShape_getLocalSupportPointWithoutMargin(
                       shapes[createdFrom[2]], ret.direction)

(* C8: a call of createProxyShape takes exactly one block, from the        *)
(* allocator passed in and from no other memory source, of the size the    *)
(* created proxy reports through getSizeInBytes(); no other call takes     *)
(* memory.                                                                 *)
C8_OneBlockFromAllocator ==
    [][/\ Len(proxies') = Len(proxies) + 1
          => /\ ret'.op = "createProxyShape"
             /\ ret'.allocator \in Allocators
             /\ memory'[ret'.allocator]
                  = Append(memory[ret'.allocator],
                           ProxyConeShape_getSizeInBytes(proxies'[Len(proxies')]))
             /\ \A m \in MemorySources \ {ret'.allocator} : memory'[m] = memory[m]
       /\ Len(proxies') # Len(proxies) + 1 => memory' = memory]_vars

(* Two proxies were created, one from each allocator.                      *)
C8_Witness ==
    /\ Len(proxies) = 2
    /\ ret.op = "createProxyShape"
    /\ \A a \in Allocators :
         memory[a] = <<ProxyConeShape_getSizeInBytes(proxies[ret.value])>>
    /\ memory["heap"] = <<>>

(* C10: no step changes the radius, half height or margin of an existing   *)
(* cone, and every proxy keeps returning, from getCollisionShape(), the    *)
(* cone that created it.                                                   *)
C10_SharedConeUnchanged ==
    [][/\ \A s \in ShapeIds : s <= Len(shapes') /\ shapes'[s] = shapes[s]
       /\ \A p \in ProxyIds : p <= Len(proxies') /\ createdFrom'[p] = createdFrom[p]
       /\ \A p \in 1..Len(proxies') :
            ProxyConeShape_getCollisionShape(proxies'[p]) = createdFrom'[p]]_vars

(* A cone shared by two proxies was asked for its inertia tensor.          *)
C10_Witness ==
    /\ Len(proxies) = 2
    /\ ProxyConeShape_getCollisionShape(proxies[1])
         = ProxyConeShape_getCollisionShape(proxies[2])
    /\ ret.op = "computeLocalInertiaTensor"
    /\ ret.self = createdFrom[1]

(* C11: in RaycastManager the number of stored hit points equals the       *)
(* number of stored normals and the number of notifyRaycastHit calls since *)
(* the last resetPoints (or since construction), and both vectors are      *)
(* empty right after resetPoints.                                          *)
C11_HitPointsMatchNormals ==
    /\ Len(mHitPoints) = Len(mNormals)
    /\ Len(mHitPoints) = hitsSinceReset
    /\ ret.op = "resetPoints" => (mHitPoints = <<>> /\ mNormals = <<>>)
    /\ ret.op = "notifyRaycastHit"
         => /\ mHitPoints # <<>>
            /\ mHitPoints[Len(mHitPoints)].position = ret.raycastInfo.worldPoint
            /\ mNormals[Len(mNormals)].mWorldPoint1 = ret.raycastInfo.worldPoint

(* Two hits were reported since the last resetPoints, the last one just    *)
(* now, and two points and two normals are stored.                         *)
C11_Witness ==
    /\ ret.op = "notifyRaycastHit"
    /\ hitsSinceReset = 2
    /\ Len(mHitPoints) = 2
    /\ Len(mNormals) = 2
    /\ mHitPoints[1] # mHitPoints[2]

=============================================================================
